---- MODULE Spec2Model ----
(***************************************************************************)
(* ff-cookie-exception-manager: the sync run of sync.py (main) over the    *)
(* three stores it reconciles:                                             *)
(*   moz_perms       the cookie rows of the Firefox permissions database,  *)
(*   remote_file     /ff-cookie-exceptions/sync.json on the WebDAV server, *)
(*   last_sync_file  last_sync_state.json in the configuration directory   *)
(*                   (the baseline),                                       *)
(* plus the backups directory.  Files hold the JSON interchange form;      *)
(* CustomEncoder / CustomDecoder translate between it and the rule objects.*)
(* Times (syncDate, clock) are integers; 0 is datetime(1970, 1, 1).  The   *)
(* runs of the tool happen at the even times 2, 4, ...; what other clients  *)
(* put on the share between two runs is dated with the odd time between.   *)
(***************************************************************************)
EXTENDS Integers, FiniteSets, Sequences, TLC

VARIABLES moz_perms, remote_file, last_sync_file, backups_mtime, backup_files,
          now, last

vars == <<moz_perms, remote_file, last_sync_file, backups_mtime, backup_files,
          now, last>>

(***************************************************************************)
(* Bounds of the model.                                                    *)
(***************************************************************************)
\* the number of runs of the tool in one behaviour
MaxRuns == 2

OriginA == "https://a.example"
OriginB == "https://b.example"
Origins == {OriginA, OriginB}

(***************************************************************************)
(* ff.py: CookieExceptionRule.Permission (Enum): a member is modelled by   *)
(* its value; PermissionName gives its name.                               *)
(***************************************************************************)
ALWAYS == 1
SESSION == 8
Permission == {ALWAYS, SESSION}
PermissionName(p) == IF p = ALWAYS THEN "ALWAYS" ELSE "SESSION"

\* CookieExceptionRule objects (ff.py __init__)
Rule(o, p, t) == [origin |-> o, permission |-> p, modificationTime |-> t]

\* the rules the stores may hold: two values of the rule of origin A, one of B
Rules == {Rule(OriginA, ALWAYS, 1), Rule(OriginA, SESSION, 2), Rule(OriginB, SESSION, 1)}

OriginsOf(rs) == {r.origin : r \in rs}
UniqueByOrigin(rs) == \A r1 \in rs, r2 \in rs : r1.origin = r2.origin => r1 = r2
RuleSets == {rs \in SUBSET Rules : UniqueByOrigin(rs)}

(***************************************************************************)
(* JSON values of the "permission" member on the wire: a string or a       *)
(* number.                                                                 *)
(***************************************************************************)
JStr(s) == [t |-> "str", s |-> s, n |-> 0]
JNum(n) == [t |-> "num", s |-> "", n |-> n]

\* CookieExceptionRule.to_dict: the permission goes out as the member's NAME
to_dict(r) ==
    [origin |-> r.origin,
     permission |-> JStr(PermissionName(r.permission)),
     modificationTime |-> r.modificationTime]

\* Permission(x), the Enum lookup BY VALUE of from_dict: succeeds for 1 and 8 only
PermissionLookupOk(tok) == tok.t = "num" /\ tok.n \in Permission

\* CookieExceptionRule.from_dict on a wire rule whose lookup succeeds
from_dict(w) ==
    [origin |-> w.origin,
     permission |-> w.permission.n,
     modificationTime |-> w.modificationTime]

(***************************************************************************)
(* Files.  A file that does not exist has exists = FALSE.                  *)
(***************************************************************************)
NoFile == [exists |-> FALSE, syncDate |-> 0, exceptionRules |-> {}]

\* json.dump(syncState, cls=CustomEncoder): the file text of a sync state
Encode(state) ==
    [exists |-> TRUE,
     syncDate |-> state.syncDate,
     exceptionRules |-> {to_dict(r) : r \in state.exceptionRules}]

\* json.load(file, cls=CustomDecoder): ok = FALSE is the ValueError that from_dict
\* raises out of the object hook
Decode(file) ==
    IF \A w \in file.exceptionRules : PermissionLookupOk(w.permission)
    THEN [ok |-> TRUE, syncDate |-> file.syncDate,
          exceptionRules |-> {from_dict(w) : w \in file.exceptionRules}]
    ELSE [ok |-> FALSE, syncDate |-> file.syncDate, exceptionRules |-> {}]

\* the state main() uses when a file is missing
EmptyState == [syncDate |-> 0, exceptionRules |-> {}]

(***************************************************************************)
(* Inputs of one run: the command line, the configuration file as read by  *)
(* config.get (a string; "" stands for an unset or empty option) and the   *)
(* behaviour of the network during the run.                                *)
(***************************************************************************)
ConfigValues == {"", "true"}
Strategies == {"use_newest", "use_local", "use_remote", "do_nothing", "other"}
\* "killed": the process is stopped right after ff.replaceRules has committed
Faults == {"none", "selfcheck", "download", "upload_init", "upload", "killed"}
\* [backup] interval, in units of the clock
Intervals == {0, 2}

\* Python truth value of an option string, as in `if config.get(...)`
Truthy(s) == s # ""

(***************************************************************************)
(* The stores as one run that starts at time t sees and changes them, with *)
(* the run's outcome: writes is the sequence of writes performed so far,   *)
(* branch the branch of the decision table taken, end how the run ended,   *)
(* exit the exit code (an uncaught exception ends the interpreter with     *)
(* code 1).                                                                *)
(***************************************************************************)
Begin(St, t) ==
    [moz_perms |-> St.moz_perms, remote_file |-> St.remote_file,
     last_sync_file |-> St.last_sync_file, backups_mtime |-> St.backups_mtime,
     backup_files |-> St.backup_files, now |-> t, writes |-> <<>>,
     branch |-> "none", end |-> "running", exit |-> 0, strategy |-> "unread",
     backup |-> "unread"]

Exit(S, end, code) == [S EXCEPT !.end = end, !.exit = code]

\* ff.getExceptions: the cookie rows of the database as rule objects
getExceptions(S) == S.moz_perms

\* a replace that inserts without the DELETE
replaceRulesKeepsOld(S, rules) ==
    [S EXCEPT !.moz_perms = @ \cup rules, !.writes = Append(@, "local")]

\* ff.replaceRules: the sanity assert, then delete all, insert all, commit
\* a replace whose sanity assert lets every list through
replaceRulesAssertsNothing(rules) == TRUE

replaceRulesAsserts(rules) == rules # {}
replaceRules(S, rules) ==
    [S EXCEPT !.moz_perms = rules, !.writes = Append(@, "local")]

\* an upload that creates the remote file but never overwrites one
uploadSyncStateCreateOnly(S, state) ==
    IF S.remote_file.exists
    THEN [S EXCEPT !.writes = Append(@, "remote")]
    ELSE [S EXCEPT !.remote_file = Encode(state), !.writes = Append(@, "remote")]

\* uploadSyncState: PUT of the encoded state (the caller handles the failure)
uploadSyncState(S, state) ==
    [S EXCEPT !.remote_file = Encode(state), !.writes = Append(@, "remote")]

\* a save that never reaches the disk
saveLastSyncStateSkipped(S, state) == S

\* saveLastSyncState: json.dump of the state into last_sync_state.json
saveLastSyncState(S, state) ==
    [S EXCEPT !.last_sync_file = Encode(state), !.writes = Append(@, "baseline")]

\* a merge whose use_newest comparison is the wrong way round
mergeChangesOldest(mergeStatergy, local_state, remote_state) ==
    IF mergeStatergy = "use_newest"
    THEN IF local_state.syncDate < remote_state.syncDate
         THEN [kind |-> "state", state |-> local_state]
         ELSE [kind |-> "state", state |-> remote_state]
    ELSE IF mergeStatergy = "use_local"
    THEN [kind |-> "state", state |-> local_state]
    ELSE IF mergeStatergy = "use_remote"
    THEN [kind |-> "state", state |-> remote_state]
    ELSE IF mergeStatergy = "do_nothing"
    THEN [kind |-> "none", state |-> EmptyState]
    ELSE [kind |-> "invalid", state |-> EmptyState]

\* a merge that treats do_nothing as use_local
mergeChangesNeverNone(mergeStatergy, local_state, remote_state) ==
    IF mergeStatergy = "use_newest"
    THEN IF local_state.syncDate > remote_state.syncDate
         THEN [kind |-> "state", state |-> local_state]
         ELSE [kind |-> "state", state |-> remote_state]
    ELSE IF mergeStatergy = "use_remote"
    THEN [kind |-> "state", state |-> remote_state]
    ELSE IF mergeStatergy \in {"use_local", "do_nothing"}
    THEN [kind |-> "state", state |-> local_state]
    ELSE [kind |-> "invalid", state |-> EmptyState]

\* mergeChanges: the state chosen by the strategy; kind "none" is the None of
\* do_nothing, kind "invalid" the exit(1) of an unknown strategy
mergeChanges(mergeStatergy, local_state, remote_state) ==
    IF mergeStatergy = "use_newest"
    THEN IF local_state.syncDate > remote_state.syncDate
         THEN [kind |-> "state", state |-> local_state]
         ELSE [kind |-> "state", state |-> remote_state]
    ELSE IF mergeStatergy = "use_local"
    THEN [kind |-> "state", state |-> local_state]
    ELSE IF mergeStatergy = "use_remote"
    THEN [kind |-> "state", state |-> remote_state]
    ELSE IF mergeStatergy = "do_nothing"
    THEN [kind |-> "none", state |-> EmptyState]
    ELSE [kind |-> "invalid", state |-> EmptyState]

\* main, lines 276-279: are there any new local changes?
NewLocalChanges(last_sync_state, local_state) ==
    last_sync_state.exceptionRules # local_state.exceptionRules

\* a panic test that looks at the local snapshot only
PanicDetectedLocalOnly(local_state, remote_state, IS_INITIAL_SYNC) ==
    local_state.exceptionRules = {}

\* main, lines 300-307: the panic states
PanicDetected(local_state, remote_state, IS_INITIAL_SYNC) ==
    \/ remote_state.exceptionRules = {} /\ ~IS_INITIAL_SYNC
    \/ local_state.exceptionRules = {}

\* a decision chain without its fourth case (equal dates, local changes)
BranchWithoutPush(last_sync_state, remote_state, new_local_changes) ==
    IF last_sync_state.syncDate < remote_state.syncDate /\ ~new_local_changes
    THEN "pull"
    ELSE IF last_sync_state.syncDate < remote_state.syncDate /\ new_local_changes
    THEN "merge"
    ELSE IF last_sync_state.syncDate = remote_state.syncDate /\ ~new_local_changes
    THEN "noop"
    ELSE "impossible"

\* main, lines 312-347: the if / elif chain of the decision
Branch(last_sync_state, remote_state, new_local_changes) ==
    IF last_sync_state.syncDate < remote_state.syncDate /\ ~new_local_changes
    THEN "pull"
    ELSE IF last_sync_state.syncDate < remote_state.syncDate /\ new_local_changes
    THEN "merge"
    ELSE IF last_sync_state.syncDate = remote_state.syncDate /\ ~new_local_changes
    THEN "noop"
    ELSE IF last_sync_state.syncDate = remote_state.syncDate /\ new_local_changes
    THEN "push"
    ELSE "impossible"

\* backupSyncState, called at the end of main when [backup] enabled is set
backupSyncState(S, interval) ==
    LET made == S.backups_mtime = 0
        mtime == IF made THEN S.now ELSE S.backups_mtime
        S1 == IF made
              THEN [S EXCEPT !.backups_mtime = S.now, !.writes = Append(@, "backups_dir")]
              ELSE S
    IN  IF S.now - mtime > interval
        THEN IF ~S1.last_sync_file.exists
             THEN Exit(S1, "AssertionError", 1)
             ELSE Exit([S1 EXCEPT !.backup_files = @ \cup {S.now},
                                  !.backups_mtime = S.now,
                                  !.writes = Append(@, "backup")], "done", 0)
        ELSE Exit(S1, "done", 0)

\* main, lines 349-353
MakeBackups(in, S) ==
    IF Truthy(in.backup_enabled)
    THEN backupSyncState([S EXCEPT !.backup = in.backup_enabled], in.backup_interval)
    ELSE Exit([S EXCEPT !.backup = in.backup_enabled], "done", 0)

\* main, lines 312-347, with the stores as they are after the download
Reconcile(in, S, last_sync_state, local_state, remote_state, new_local_changes) ==
    LET br == Branch(last_sync_state, remote_state, new_local_changes)
        B == [S EXCEPT !.branch = br]
    IN  CASE br = "pull" ->
               IF in.simulate THEN MakeBackups(in, B)
               ELSE IF ~replaceRulesAsserts(remote_state.exceptionRules)
               THEN Exit(B, "AssertionError", 1)
               ELSE IF in.fault = "killed"
               THEN Exit(replaceRules(B, remote_state.exceptionRules), "killed", 1)
               ELSE MakeBackups(in,
                        saveLastSyncState(
                            replaceRules(B, remote_state.exceptionRules),
                            local_state))
          [] br = "merge" ->
               LET merged_state == mergeChanges(in.merge_statergy, local_state, remote_state)
                   M == [B EXCEPT !.strategy = in.merge_statergy]
               IN  IF merged_state.kind = "invalid" THEN Exit(M, "invalid_strategy", 1)
                   ELSE IF merged_state.kind = "none" THEN MakeBackups(in, M)
                   ELSE IF in.simulate THEN MakeBackups(in, M)
                   ELSE IF ~replaceRulesAsserts(merged_state.state.exceptionRules)
                   THEN Exit(M, "AssertionError", 1)
                   ELSE LET R == replaceRules(M, merged_state.state.exceptionRules)
                        IN  IF in.fault = "killed" THEN Exit(R, "killed", 1)
                            ELSE IF in.fault = "upload" THEN Exit(R, "upload_failed", 1)
                            ELSE MakeBackups(in,
                                     saveLastSyncState(
                                         uploadSyncState(R, merged_state.state),
                                         local_state))
          [] br = "noop" -> Exit(B, "noop", 0)
          [] br = "push" ->
               IF in.simulate THEN MakeBackups(in, B)
               ELSE IF in.fault = "upload" THEN Exit(B, "upload_failed", 1)
               ELSE MakeBackups(in,
                        saveLastSyncState(uploadSyncState(B, local_state), local_state))
          [] OTHER -> Exit(B, "impossible", 1)

\* main, lines 300-310, then the decision
PanicCheck(in, S, last_sync_state, local_state, remote_state, IS_INITIAL_SYNC) ==
    IF Truthy(in.panic) /\ PanicDetected(local_state, remote_state, IS_INITIAL_SYNC)
    THEN Exit(S, "panic", 1)
    ELSE Reconcile(in, S, last_sync_state, local_state, remote_state,
                   NewLocalChanges(last_sync_state, local_state))

\* main, lines 282-292: downloadSyncState and the initial sync
Download(in, S, last_sync_state, local_state) ==
    IF in.fault = "download" THEN Exit(S, "download_failed", 1)
    ELSE IF S.remote_file.exists
    THEN LET d == Decode(S.remote_file)
         IN  IF ~d.ok THEN Exit(S, "ValueError", 1)
             ELSE PanicCheck(in, S, last_sync_state, local_state,
                             [syncDate |-> d.syncDate, exceptionRules |-> d.exceptionRules],
                             FALSE)
    ELSE IF in.simulate
    THEN PanicCheck(in, S, last_sync_state, local_state, EmptyState, TRUE)
    ELSE IF in.fault = "upload_init" THEN Exit(S, "upload_failed", 1)
    ELSE PanicCheck(in, uploadSyncState(S, EmptyState), last_sync_state, local_state,
                    EmptyState, TRUE)

\* main, lines 252-274: selfcheck, the last sync state from disk, the local state
main(S, in) ==
    IF in.fault = "selfcheck" THEN Exit(S, "selfcheck_failed", 1)
    ELSE IF S.last_sync_file.exists
    THEN LET d == Decode(S.last_sync_file)
         IN  IF ~d.ok THEN Exit(S, "ValueError", 1)
             ELSE Download(in, S,
                           [syncDate |-> d.syncDate, exceptionRules |-> d.exceptionRules],
                           [syncDate |-> S.now, exceptionRules |-> getExceptions(S)])
    ELSE Download(in, S, EmptyState,
                  [syncDate |-> S.now, exceptionRules |-> getExceptions(S)])

(***************************************************************************)
(* The state machine.  last is the record of the run that has just ended  *)
(* (kind = "run"): its inputs, the stores as it found them (pre), what it  *)
(* did (res), and, when the run before it ended right before it started,   *)
(* with no change to a store from outside in between (quiet), that run's   *)
(* mode and outcome (prev).  The record is dropped (Forget, kind = "none")  *)
(* before a store changes from outside the tool.                           *)
(***************************************************************************)
Inputs ==
    [simulate : BOOLEAN, panic : ConfigValues, merge_statergy : Strategies,
     backup_enabled : ConfigValues, backup_interval : Intervals, fault : Faults]

\* A fault is an event of a call the run makes, and the merge strategy and the
\* backup options are read where the run uses them: of the runs that differ only
\* in a fault that no call met or in an option that was not read, one is kept.
FaultMet(in, R) ==
    \/ in.fault = "none"
    \/ in.fault = "selfcheck" /\ R.end = "selfcheck_failed"
    \/ in.fault = "download" /\ R.end = "download_failed"
    \/ in.fault \in {"upload_init", "upload"} /\ R.end = "upload_failed"
    \/ in.fault = "killed" /\ R.end = "killed"

OptionsRead(in, R) ==
    /\ R.strategy = "unread" => in.merge_statergy = "use_newest"
    /\ R.backup = "unread" => in.backup_enabled = ""
    /\ ~Truthy(in.backup_enabled) => in.backup_interval = 0

NoInputs ==
    [simulate |-> FALSE, panic |-> "", merge_statergy |-> "use_newest",
     backup_enabled |-> "", backup_interval |-> 0, fault |-> "none"]

Stores ==
    [moz_perms |-> moz_perms, remote_file |-> remote_file,
     last_sync_file |-> last_sync_file, backups_mtime |-> backups_mtime,
     backup_files |-> backup_files]

Outcome(R) ==
    [writes |-> R.writes, branch |-> R.branch, end |-> R.end, exit |-> R.exit,
     strategy |-> R.strategy, backup |-> R.backup]

NoOutcome ==
    [writes |-> <<>>, branch |-> "none", end |-> "running", exit |-> 0,
     strategy |-> "unread", backup |-> "unread"]

NoRun ==
    [kind |-> "none", in |-> NoInputs, at |-> 0, quiet |-> FALSE,
     pre |-> [moz_perms |-> {}, remote_file |-> NoFile, last_sync_file |-> NoFile,
              backups_mtime |-> 0, backup_files |-> {}],
     prev |-> [simulate |-> FALSE, branch |-> "none", end |-> "running",
               strategy |-> "unread"],
     res |-> NoOutcome]

Init ==
    /\ moz_perms \in RuleSets
    /\ remote_file = NoFile
    /\ last_sync_file = NoFile
    /\ backups_mtime = 0
    /\ backup_files = {}
    /\ now = 2
    /\ last = NoRun

\* one invocation of the sync tool, from parse_args to the exit of the process
\* The inputs of the runs kept.  The run with the same command line and options
\* that no fault meets (the probe) tells whether the merge strategy and the backup
\* options are read at all; a fault ends the run before the backup options are read.
Probe(simulate, panic, strategy) ==
    [simulate |-> simulate, panic |-> panic, merge_statergy |-> strategy,
     backup_enabled |-> "", backup_interval |-> 0, fault |-> "none"]

StrategiesRead(simulate, panic) ==
    IF main(Begin(Stores, now), Probe(simulate, panic, "use_newest")).strategy = "unread"
    THEN {"use_newest"}
    ELSE Strategies

RunInputs ==
    UNION {
      UNION {
        UNION {
          {[Probe(simulate, panic, strategy) EXCEPT !.fault = f] : f \in Faults}
          \cup
          {[Probe(simulate, panic, strategy) EXCEPT
                !.backup_enabled = "true", !.backup_interval = i] :
              i \in IF P.backup = "unread" THEN {} ELSE Intervals}
          : P \in {main(Begin(Stores, now), Probe(simulate, panic, strategy))}}
        : strategy \in StrategiesRead(simulate, panic)}
      : simulate \in BOOLEAN, panic \in ConfigValues}

RunSync ==
    /\ now <= 2 * MaxRuns
    /\ \E in \in RunInputs : \E R \in {main(Begin(Stores, now), in)} :
             /\ FaultMet(in, R)
             /\ OptionsRead(in, R)
             /\ moz_perms' = R.moz_perms
             /\ remote_file' = R.remote_file
             /\ last_sync_file' = R.last_sync_file
             /\ backups_mtime' = R.backups_mtime
             /\ backup_files' = R.backup_files
             /\ last' = [kind |-> "run", in |-> in, at |-> now,
                         quiet |-> (last.kind = "run"),
                         pre |-> Stores,
                         prev |-> [simulate |-> last.in.simulate,
                                   branch |-> last.res.branch, end |-> last.res.end,
                                   strategy |-> last.res.strategy],
                         res |-> Outcome(R)]
    /\ now' = now + 2

\* the user adds or changes a cookie exception in Firefox
LocalEdit ==
    /\ last = NoRun
    /\ \E r \in Rules :
         /\ r \notin moz_perms
         /\ moz_perms' = {x \in moz_perms : x.origin # r.origin} \cup {r}
    /\ last' = NoRun
    /\ UNCHANGED <<remote_file, last_sync_file, backups_mtime, backup_files, now>>

\* the user removes a cookie exception in Firefox
LocalRemove ==
    /\ last = NoRun
    /\ \E r \in moz_perms : moz_perms' = moz_perms \ {r}
    /\ last' = NoRun
    /\ UNCHANGED <<remote_file, last_sync_file, backups_mtime, backup_files, now>>

\* another client of the WebDAV share puts a sync.json: one that writes the
\* permission by value (which the decoder reads), or by name (as the encoder does)
RemoteWrite ==
    /\ last = NoRun
    /\ \E rs \in RuleSets, byValue \in BOOLEAN :
         remote_file' =
            [exists |-> TRUE, syncDate |-> now - 1,
             exceptionRules |->
                {IF byValue
                 THEN [origin |-> r.origin, permission |-> JNum(r.permission),
                       modificationTime |-> r.modificationTime]
                 ELSE to_dict(r) : r \in rs}]
    /\ last' = NoRun
    /\ UNCHANGED <<moz_perms, last_sync_file, backups_mtime, backup_files, now>>

\* the sync.json is removed from the share (or the share is a new one)
RemoteDelete ==
    /\ last = NoRun
    /\ remote_file.exists
    /\ remote_file' = NoFile
    /\ last' = NoRun
    /\ UNCHANGED <<moz_perms, last_sync_file, backups_mtime, backup_files, now>>

\* time passes after a run: the next run no longer follows it immediately
Forget ==
    /\ last.kind = "run"
    /\ last' = NoRun
    /\ UNCHANGED <<moz_perms, remote_file, last_sync_file, backups_mtime,
                   backup_files, now>>

Next == RunSync \/ LocalEdit \/ LocalRemove \/ RemoteWrite \/ RemoteDelete \/ Forget

Spec == Init /\ [][Next]_vars

\* the tool alone: its runs and the user's edits of the local rules, no other
\* client of the share
NextLocal == RunSync \/ LocalEdit \/ LocalRemove \/ Forget

SpecLocal == Init /\ [][NextLocal]_vars

(***************************************************************************)
(* What the claims speak of.                                               *)
(***************************************************************************)
\* the rule a wire rule stands for, whichever way its permission is written
Denotes(w) ==
    Rule(w.origin,
         IF w.permission.t = "num" THEN w.permission.n
         ELSE IF w.permission.s = "ALWAYS" THEN ALWAYS ELSE SESSION,
         w.modificationTime)

\* the rule set of a snapshot file (empty for a file that does not exist)
RuleSetOf(file) == {Denotes(w) : w \in file.exceptionRules}

\* a run has just ended: the stores are as it left them
Ran == last.kind = "run"

\* the run before the one that has just ended replaced, uploaded or merged
PrevActed ==
    \/ last.prev.branch \in {"pull", "push"}
    \/ /\ last.prev.branch = "merge"
       /\ last.prev.strategy \in {"use_newest", "use_local", "use_remote"}

\* the fatal exits of main: logger.error followed by exit(1)
FatalEnds ==
    {"panic", "download_failed", "upload_failed", "impossible", "invalid_strategy",
     "selfcheck_failed"}

\* C1 (as claimed): after a successful non-simulated run that took the pull branch
\* (remote.syncDate > baseline.syncDate, local rule set equal to the baseline's),
\* the local rules are the remote snapshot's rules and the persisted baseline is
\* the remote snapshot: its rules and its syncDate.
C1_PullPersistsRemoteSnapshot ==
    (/\ Ran
     /\ ~last.in.simulate
     /\ last.res.branch = "pull"
     /\ last.res.end = "done"
     /\ last.pre.remote_file.syncDate > last.pre.last_sync_file.syncDate
     /\ last.pre.moz_perms = RuleSetOf(last.pre.last_sync_file))
    => /\ moz_perms = RuleSetOf(last.pre.remote_file)
       /\ last_sync_file.exists
       /\ RuleSetOf(last_sync_file) = RuleSetOf(last.pre.remote_file)
       /\ last_sync_file.syncDate = last.pre.remote_file.syncDate

\* C2: in every state reached by runs of the tool and local edits alone, from no
\* baseline and no remote file, a run that gets to the decision takes one of
\* no-op, pull, push, merge: the "Impossible state reached" branch is never taken.
C2_TableExhaustive ==
    Ran => /\ last.res.branch \in {"none", "noop", "pull", "push", "merge"}
           /\ last.res.end # "impossible"

\* a later run, after earlier runs and edits, gets to the decision
C2_Witness ==
    /\ Ran
    /\ last.at > 2
    /\ last.res.branch \in {"noop", "pull", "push", "merge"}

\* C3 (as claimed): a run that starts right after a successful non-simulated run
\* that pulled, pushed or merged, with no change to the local store or the remote
\* file in between and no network fault, takes the no-op branch, writes nothing
\* and exits with code 0.
C3_RerunIsNoop ==
    (/\ Ran
     /\ last.quiet
     /\ ~last.prev.simulate
     /\ last.prev.end = "done"
     /\ PrevActed
     /\ last.in.fault = "none")
    => /\ last.res.branch = "noop"
       /\ last.res.writes = <<>>
       /\ last.res.exit = 0

\* C4 (as claimed): after a successful non-simulated run that merged with a
\* strategy other than do_nothing, the local rule set, the uploaded remote rule
\* set and the persisted baseline rule set are the same set.
C4_MergeLeavesOneSet ==
    (/\ Ran
     /\ ~last.in.simulate
     /\ last.res.branch = "merge"
     /\ last.res.strategy \in {"use_newest", "use_local", "use_remote"}
     /\ last.res.end = "done")
    => /\ moz_perms = RuleSetOf(remote_file)
       /\ RuleSetOf(last_sync_file) = moz_perms

\* C5 (as claimed): when the local, baseline and remote rule sets are equal,
\* whatever the syncDates (and the sets are not empty, or the panic option is
\* off), a run that meets no network fault writes nothing and exits with code 0.
C5_NoopStability ==
    (/\ Ran
     /\ last.in.fault = "none"
     /\ last.pre.remote_file.exists
     /\ last.pre.last_sync_file.exists
     /\ RuleSetOf(last.pre.remote_file) = last.pre.moz_perms
     /\ RuleSetOf(last.pre.last_sync_file) = last.pre.moz_perms
     /\ (last.pre.moz_perms # {} \/ ~Truthy(last.in.panic)))
    => /\ last.res.writes = <<>>
       /\ last.res.exit = 0

\* the case of C6 in the stores a run found: against the baseline, the local side
\* added the rule of origin b and left origin a alone, the remote side changed the
\* rule of origin a and has no rule of b
C6_Case(pre, a, b) ==
    LET base == RuleSetOf(pre.last_sync_file)
        rem == RuleSetOf(pre.remote_file)
    IN  /\ a # b
        /\ pre.last_sync_file.exists /\ pre.remote_file.exists
        /\ a \in OriginsOf(base) /\ b \notin OriginsOf(base)
        /\ b \in OriginsOf(pre.moz_perms) /\ b \notin OriginsOf(rem)
        /\ {r \in pre.moz_perms : r.origin = a} = {r \in base : r.origin = a}
        /\ a \in OriginsOf(rem)
        /\ {r \in rem : r.origin = a} # {r \in base : r.origin = a}

\* C6 (as claimed): in that case a non-simulated run that meets no network fault,
\* under any strategy that merges, leaves the local store, the remote and the
\* baseline each holding the local side's rule of b and the remote side's rule of a.
C6_NoLostUpdate ==
    \A a \in Origins, b \in Origins :
        (/\ Ran
         /\ ~last.in.simulate
         /\ last.in.fault = "none"
         /\ last.in.merge_statergy \in {"use_newest", "use_local", "use_remote"}
         /\ C6_Case(last.pre, a, b))
        => LET want == {r \in last.pre.moz_perms : r.origin = b}
                       \cup {r \in RuleSetOf(last.pre.remote_file) : r.origin = a}
           IN  /\ want \subseteq moz_perms
               /\ want \subseteq RuleSetOf(remote_file)
               /\ want \subseteq RuleSetOf(last_sync_file)

\* C7 (as claimed): a non-simulated run that finds no remote file and a non-empty
\* local rule set, whatever baseline is persisted, and meets no network fault,
\* leaves the remote file holding the local snapshot and the baseline holding that
\* same snapshot, and does not end in the panic exit.
C7_Bootstrap ==
    (/\ Ran
     /\ ~last.in.simulate
     /\ last.in.fault = "none"
     /\ ~last.pre.remote_file.exists
     /\ last.pre.moz_perms # {})
    => /\ last.res.end # "panic"
       /\ remote_file.exists
       /\ RuleSetOf(remote_file) = last.pre.moz_perms
       /\ remote_file.syncDate = last.at
       /\ last_sync_file = remote_file

\* the case of C8 in the stores a run found and its options
C8_Case ==
    /\ Ran
    /\ last.pre.remote_file.exists
    /\ last.pre.remote_file.exceptionRules = {}
    /\ last.pre.moz_perms # {}
    /\ Truthy(last.in.panic)

\* C8: a run that finds the remote snapshot with zero rules and a non-empty local
\* rule set, with the panic option on, exits with a non-zero code and has written
\* nothing: the local store, the remote file, the baseline and the backups are as
\* the run found them.
C8_PanicSafety ==
    C8_Case => /\ last.res.exit # 0
               /\ last.res.writes = <<>>
               /\ Stores = last.pre

\* such a run ended in the panic exit
C8_Witness == C8_Case /\ last.res.end = "panic"

\* C9 (as claimed): a run that ends in a fatal exit has written nothing before it:
\* the local store and the remote file are as the run found them.
C9_FatalBeforeWrites ==
    (Ran /\ last.res.end \in FatalEnds)
    => /\ last.res.writes = <<>>
       /\ moz_perms = last.pre.moz_perms
       /\ remote_file = last.pre.remote_file
       /\ last_sync_file = last.pre.last_sync_file

\* C10 (as claimed): a run started with --simulate leaves the local store, the
\* remote file, the baseline and the backup files as it found them, and takes the
\* branch the same run without --simulate takes.
C10_SimulateChangesNothing ==
    (Ran /\ last.in.simulate)
    => /\ moz_perms = last.pre.moz_perms
       /\ remote_file = last.pre.remote_file
       /\ last_sync_file = last.pre.last_sync_file
       /\ backup_files = last.pre.backup_files
       /\ last.res.branch =
             main(Begin(last.pre, last.at), [last.in EXCEPT !.simulate = FALSE]).branch

\* C11: a non-simulated run that takes the push branch (remote.syncDate equal to
\* baseline.syncDate, local rule set different from the baseline's) and meets no
\* network fault uploads the local snapshot, persists the same snapshot as the
\* baseline and leaves the local rule store as it found it.
C11_Push ==
    (/\ Ran
     /\ ~last.in.simulate
     /\ last.res.branch = "push"
     /\ last.in.fault = "none")
    => /\ remote_file =
              Encode([syncDate |-> last.at, exceptionRules |-> last.pre.moz_perms])
       /\ last_sync_file = remote_file
       /\ moz_perms = last.pre.moz_perms
       /\ last.res.exit = 0

\* a push of a non-empty local rule set over an existing remote file
C11_Witness ==
    /\ Ran
    /\ ~last.in.simulate
    /\ last.res.branch = "push"
    /\ last.res.end = "done"
    /\ last.pre.remote_file.exists
    /\ last.pre.moz_perms # {}
    /\ RuleSetOf(last.pre.last_sync_file) # last.pre.moz_perms

\* the run before the one that has just ended stopped after it had replaced the
\* local rules and before it uploaded or saved the baseline, and the run that has
\* just ended is an ordinary one: not simulated, no fault, no panic condition,
\* the merge strategy that of the interrupted run when that run read it
C12_Case ==
    /\ Ran
    /\ last.quiet
    /\ \/ last.prev.end = "killed"
       \/ last.prev.branch = "merge" /\ last.prev.end = "upload_failed"
    /\ \/ last.prev.strategy = "unread"
       \/ last.res.strategy \in {"unread", last.prev.strategy}
    /\ ~last.in.simulate
    /\ last.in.fault = "none"
    /\ ~(/\ Truthy(last.in.panic)
         /\ \/ last.pre.moz_perms = {}
            \/ last.pre.remote_file.exceptionRules = {})

C12_Recovered ==
    /\ last.res.branch \in {"pull", "merge"}
    /\ last.res.end = "done"
    /\ last.res.exit = 0
    /\ RuleSetOf(remote_file) = moz_perms
    /\ RuleSetOf(last_sync_file) = moz_perms

\* C12 (as claimed): the run after an interrupted one re-attempts the
\* reconciliation and ends, without a fatal exit, with the local, remote and baseline
\* rule sets equal.
C12_InterruptedRunRecovery == C12_Case => C12_Recovered

\* C12 (amended): the same, when the merge strategy configured for the recovering
\* run is one that picks a snapshot (use_newest, use_local or use_remote).
C12_RecoveryWithMergingStrategy ==
    (C12_Case /\ last.in.merge_statergy \in {"use_newest", "use_local", "use_remote"})
    => C12_Recovered

\* the recovering run merged again after a killed pull
C12_Witness ==
    /\ C12_Case
    /\ last.prev.branch = "pull"
    /\ last.res.branch = "merge"
    /\ last.res.end = "done"
    /\ last.res.strategy \in {"use_newest", "use_local", "use_remote"}

(***************************************************************************)
(* The functions of ff.py and sync.py on their own: one call of one        *)
(* function, on arguments drawn from the sample sets below, with the call  *)
(* and what it returned recorded in last.                                  *)
(***************************************************************************)
\* syncDate values of the sample snapshots
MaxDate == 3
SampleDates == 1..MaxDate
Snapshots == [syncDate : SampleDates, exceptionRules : RuleSets]

\* datetime objects as verify reads them: the year
DateTime(y) == [year |-> y]
SampleYears == {1999, 2000, 2050, 2051}
\* with and without the scheme separator
SampleOrigins == {OriginA, "b.example"}
SampleRules ==
    {Rule(o, p, DateTime(y)) : o \in SampleOrigins, p \in Permission, y \in SampleYears}

\* Python values compared by verify: an Enum member is equal to no str
PyEnum(p) == [t |-> "enum", s |-> PermissionName(p), n |-> p]

\* `sub in s` on Python strings
Contains(s, sub) ==
    \E i \in 1..(Len(s) - Len(sub) + 1) : SubSeq(s, i, i + Len(sub) - 1) = sub

MinYear == 2000
MaxYear == 2050

\* CookieExceptionRule.verify
verify(r) ==
    IF PyEnum(r.permission) \notin {JStr("always"), JStr("session")} THEN FALSE
    ELSE IF ~Contains(r.origin, "://") THEN FALSE
    ELSE IF r.modificationTime.year < MinYear \/ r.modificationTime.year > MaxYear
    THEN FALSE
    ELSE TRUE

InitCalls ==
    /\ moz_perms = {}
    /\ remote_file = NoFile
    /\ last_sync_file = NoFile
    /\ backups_mtime = 0
    /\ backup_files = {}
    /\ now = 0
    /\ last = [kind |-> "none"]

\* json.dump(state, cls=CustomEncoder), then json.load(text, cls=CustomDecoder)
CallRoundTrip ==
    /\ last.kind = "none"
    /\ \E state \in Snapshots :
         last' = [kind |-> "roundtrip", state |-> state, text |-> Encode(state),
                  back |-> Decode(Encode(state))]
    /\ UNCHANGED <<moz_perms, remote_file, last_sync_file, backups_mtime,
                   backup_files, now>>

CallVerify ==
    /\ last.kind = "none"
    /\ \E r \in SampleRules : last' = [kind |-> "verify", rule |-> r, out |-> verify(r)]
    /\ UNCHANGED <<moz_perms, remote_file, last_sync_file, backups_mtime,
                   backup_files, now>>

CallMergeChanges ==
    /\ last.kind = "none"
    /\ \E mergeStatergy \in Strategies, local_state \in Snapshots,
          remote_state \in Snapshots :
         last' = [kind |-> "mergeChanges", mergeStatergy |-> mergeStatergy,
                  local_state |-> local_state, remote_state |-> remote_state,
                  out |-> mergeChanges(mergeStatergy, local_state, remote_state)]
    /\ UNCHANGED <<moz_perms, remote_file, last_sync_file, backups_mtime,
                   backup_files, now>>

\* a diff that reports every origin the two snapshots share as modified
computeDiffAllShared(newSnapshot, oldSnapshot) ==
    [added |-> {r \in newSnapshot : r.origin \notin OriginsOf(oldSnapshot)},
     removed |-> {r \in oldSnapshot : r.origin \notin OriginsOf(newSnapshot)},
     modified |-> {r \in newSnapshot : r.origin \in OriginsOf(oldSnapshot)}]

\* computeDiff of the specification (section 4.2), on the rule sets of two
\* snapshots: rules only in new, rules only in old, and the new value of the rules
\* of both whose value differs
computeDiff(newSnapshot, oldSnapshot) ==
    [added |-> {r \in newSnapshot : r.origin \notin OriginsOf(oldSnapshot)},
     removed |-> {r \in oldSnapshot : r.origin \notin OriginsOf(newSnapshot)},
     modified |-> {r \in newSnapshot :
                     \E q \in oldSnapshot : q.origin = r.origin /\ q # r}]

\* the rule sets diffed: every permission and time for each origin
DiffRuleSets ==
    {rs \in SUBSET {Rule(o, p, t) : o \in Origins, p \in Permission, t \in SampleDates} :
        UniqueByOrigin(rs)}

CallComputeDiff ==
    /\ last.kind = "none"
    /\ \E newSnapshot \in DiffRuleSets, oldSnapshot \in DiffRuleSets :
         last' = [kind |-> "computeDiff", new |-> newSnapshot, old |-> oldSnapshot,
                  out |-> computeDiff(newSnapshot, oldSnapshot),
                  new_local_changes |->
                      NewLocalChanges([syncDate |-> 0, exceptionRules |-> oldSnapshot],
                                      [syncDate |-> 0, exceptionRules |-> newSnapshot])]
    /\ UNCHANGED <<moz_perms, remote_file, last_sync_file, backups_mtime,
                   backup_files, now>>

NextCalls == CallRoundTrip \/ CallVerify \/ CallMergeChanges \/ CallComputeDiff

SpecCalls == InitCalls /\ [][NextCalls]_vars

\* C13 (as claimed): a snapshot encoded with CustomEncoder is decoded by
\* CustomDecoder without an error, into the same syncDate and an equal rule set.
C13_RoundTrip ==
    last.kind = "roundtrip"
    => /\ last.back.ok
       /\ last.back.syncDate = last.state.syncDate
       /\ last.back.exceptionRules = last.state.exceptionRules

\* the recognised permission kinds, scheme separator and year range of the claim
C14_Valid(r) ==
    /\ r.permission \in {ALWAYS, SESSION}
    /\ Contains(r.origin, "://")
    /\ r.modificationTime.year >= 2000
    /\ r.modificationTime.year <= 2050

\* C14 (as claimed): verify() returns true exactly for the rules whose permission
\* is ALWAYS or SESSION, whose origin contains "://" and whose modificationTime
\* has a year in [2000, 2050].
C14_VerifyIffValid ==
    last.kind = "verify" => (last.out <=> C14_Valid(last.rule))

(***************************************************************************)
(* The operations of ff.py that write cookie rules, on their own: the      *)
(* database holds the rows of moz_perms, a call gets a list of rules.      *)
(***************************************************************************)
MaxBatch == 2
\* rules of the lists: with and without the separator, a year in range and one
\* rule with a year out of range
BatchRules ==
    {Rule(o, p, DateTime(2000)) : o \in SampleOrigins, p \in Permission}
    \cup {Rule(OriginA, ALWAYS, DateTime(1999))}
Batches == UNION {[1..n -> BatchRules] : n \in 0..MaxBatch}
Range(f) == {f[i] : i \in DOMAIN f}

\* importRules, lines 194-213: the rows as the connection sees them after the
\* insert / update / skip of the rules from position i on
RECURSIVE importLoop(_, _, _, _)
importLoop(rows, rules, updateExisting, i) ==
    IF i > Len(rules) THEN rows
    ELSE LET rule == rules[i]
             after == IF ~\E x \in rows : x.origin = rule.origin
                      THEN rows \cup {rule}
                      ELSE IF updateExisting
                      THEN {IF x.origin = rule.origin
                            THEN Rule(x.origin, rule.permission, rule.modificationTime)
                            ELSE x : x \in rows}
                      ELSE rows
         IN  importLoop(after, rules, updateExisting, i + 1)

\* importRules: the rules are verified first; rows is what the connection sees
\* afterwards (the function does not commit)
importRules(rows, rules, updateExisting) ==
    IF \E i \in 1..Len(rules) : ~verify(rules[i])
    THEN [end |-> "invalid_rule", exit |-> 1, rows |-> rows]
    ELSE [end |-> "done", exit |-> 0,
          rows |-> importLoop(rows, rules, updateExisting, 1)]

InitStore ==
    /\ moz_perms = {}
    /\ remote_file = NoFile
    /\ last_sync_file = NoFile
    /\ backups_mtime = 0
    /\ backup_files = {}
    /\ now = 0
    /\ last = [kind |-> "none"]

\* cli.main --import: importRules on the rules of the file; the process ends
\* without a commit, so the rows of the database file stay as they were
CliImport ==
    /\ \E rules \in Batches, updateExisting \in BOOLEAN :
         \E R \in {importRules(moz_perms, rules, updateExisting)} :
            last' = [kind |-> "importRules", rules |-> rules,
                     updateExisting |-> updateExisting, pre |-> moz_perms,
                     end |-> R.end, exit |-> R.exit, rows |-> R.rows]
    /\ UNCHANGED <<moz_perms, remote_file, last_sync_file, backups_mtime,
                   backup_files, now>>

\* ff.replaceRules as the pull and merge branches of sync call it, on a list of
\* rules that came from the remote file
CallReplaceRules ==
    /\ \E rules \in Batches :
         IF replaceRulesAsserts(Range(rules))
         THEN /\ moz_perms' = replaceRules(Begin(Stores, now), Range(rules)).moz_perms
              /\ last' = [kind |-> "replaceRules", rules |-> rules, pre |-> moz_perms,
                          end |-> "done", exit |-> 0, rows |-> Range(rules)]
         ELSE /\ moz_perms' = moz_perms
              /\ last' = [kind |-> "replaceRules", rules |-> rules, pre |-> moz_perms,
                          end |-> "AssertionError", exit |-> 1, rows |-> moz_perms]
    /\ UNCHANGED <<remote_file, last_sync_file, backups_mtime, backup_files, now>>

\* ff.deleteAllExceptions: DELETE of the cookie rows, then commit
deleteAllExceptions(rows) == {}

\* cli.main --clear, confirmed by the user
CliClear ==
    /\ moz_perms # {}
    /\ moz_perms' = deleteAllExceptions(moz_perms)
    /\ last' = [kind |-> "deleteAllExceptions", rules |-> <<>>, pre |-> moz_perms,
                end |-> "done", exit |-> 0, rows |-> deleteAllExceptions(moz_perms)]
    /\ UNCHANGED <<remote_file, last_sync_file, backups_mtime, backup_files, now>>

NextStore == CliImport \/ CallReplaceRules \/ CliClear

SpecStore == InitStore /\ [][NextStore]_vars

\* C15 (as claimed): importRules and replaceRules validate the whole list first;
\* a list with an invalid rule makes the call fail before any row is written, and
\* no invalid rule is in the database after either of them.
C15_ValidationGate ==
    last.kind \in {"importRules", "replaceRules"}
    => /\ (\E i \in 1..Len(last.rules) : ~C14_Valid(last.rules[i]))
          => /\ last.exit # 0
             /\ last.rows = last.pre
             /\ moz_perms = last.pre
       /\ \A r \in moz_perms : C14_Valid(r)

\* the run that has just ended found the panic condition (local rule set empty, or
\* a remote file with no rules) with the panic option off, read both files without
\* an error and met no fault; its merge strategy is a known one and backups are off
C16_Case ==
    /\ Ran
    /\ ~Truthy(last.in.panic)
    /\ \/ last.pre.moz_perms = {}
       \/ last.pre.remote_file.exists /\ last.pre.remote_file.exceptionRules = {}
    /\ last.in.fault = "none"
    /\ last.res.end # "ValueError"
    /\ last.in.merge_statergy # "other"
    /\ ~Truthy(last.in.backup_enabled)

\* C16 (as claimed): with the panic option off, a run that finds the local or the
\* (non-bootstrap) remote rule set empty goes on to the decision, takes one of its
\* four cases and completes it: it ends normally with exit code 0.
C16_PanicOffProceeds ==
    C16_Case => /\ last.res.branch \in {"noop", "pull", "push", "merge"}
                /\ last.res.end \in {"noop", "done"}
                /\ last.res.exit = 0

\* C17: mergeChanges with use_newest returns, unmodified, the snapshot with the
\* strictly later syncDate; with use_local it returns the local snapshot and with
\* use_remote the remote snapshot, whatever the syncDates.
C17_WholeSnapshotStrategies ==
    last.kind = "mergeChanges"
    => /\ (/\ last.mergeStatergy = "use_newest"
           /\ last.local_state.syncDate > last.remote_state.syncDate)
          => last.out = [kind |-> "state", state |-> last.local_state]
       /\ (/\ last.mergeStatergy = "use_newest"
           /\ last.remote_state.syncDate > last.local_state.syncDate)
          => last.out = [kind |-> "state", state |-> last.remote_state]
       /\ last.mergeStatergy = "use_local"
          => last.out = [kind |-> "state", state |-> last.local_state]
       /\ last.mergeStatergy = "use_remote"
          => last.out = [kind |-> "state", state |-> last.remote_state]

\* use_newest was given a remote snapshot that is later and has other rules
C17_Witness ==
    /\ last.kind = "mergeChanges"
    /\ last.mergeStatergy = "use_newest"
    /\ last.remote_state.syncDate > last.local_state.syncDate
    /\ last.remote_state.exceptionRules # last.local_state.exceptionRules
    /\ last.out.state = last.remote_state

\* C18: a run that takes the merge case with strategy do_nothing leaves the local
\* rule store, the remote file and the baseline as it found them; and the run that
\* follows it with nothing changed in between, when it gets to the decision (no
\* fault, no panic exit), takes the merge case again.
C18_DoNothing ==
    /\ (Ran /\ last.res.branch = "merge" /\ last.res.strategy = "do_nothing")
       => /\ moz_perms = last.pre.moz_perms
          /\ remote_file = last.pre.remote_file
          /\ last_sync_file = last.pre.last_sync_file
    /\ (/\ Ran
        /\ last.quiet
        /\ last.prev.branch = "merge"
        /\ last.prev.strategy = "do_nothing"
        /\ last.in.fault = "none"
        /\ last.res.end # "panic")
       => last.res.branch = "merge"

\* a do_nothing merge over different local and remote rule sets, followed by a
\* second run that is in the merge case again
C18_Witness ==
    /\ Ran
    /\ last.quiet
    /\ last.prev.branch = "merge"
    /\ last.prev.strategy = "do_nothing"
    /\ last.res.branch = "merge"
    /\ last.res.strategy = "do_nothing"
    /\ ~last.in.simulate
    /\ moz_perms # {}
    /\ RuleSetOf(remote_file) # moz_perms

\* the rule of origin o in a rule set with one rule per origin
RuleAt(rs, o) == CHOOSE r \in rs : r.origin = o

\* the origins whose rule both sides changed since the baseline, to different rules
C19_Conflicts(base, local, remote) ==
    {o \in OriginsOf(local) \cap OriginsOf(remote) :
        /\ RuleAt(local, o) # RuleAt(remote, o)
        /\ RuleAt(local, o) \notin base
        /\ RuleAt(remote, o) \notin base}

\* C19 (as claimed): after a merge with the default strategy, a rule that the
\* local and the remote side both changed is the one with the strictly later
\* modificationTime, the local one when the times are equal.
C19_ConflictResolution ==
    (/\ Ran
     /\ ~last.in.simulate
     /\ last.res.branch = "merge"
     /\ last.res.strategy = "use_newest"
     /\ last.res.end = "done")
    => \A o \in C19_Conflicts(RuleSetOf(last.pre.last_sync_file), last.pre.moz_perms,
                              RuleSetOf(last.pre.remote_file)) :
          LET l == RuleAt(last.pre.moz_perms, o)
              r == RuleAt(RuleSetOf(last.pre.remote_file), o)
              kept == IF r.modificationTime > l.modificationTime THEN r ELSE l
          IN  /\ kept \in moz_perms
              /\ kept \in RuleSetOf(remote_file)

\* C20: the added, removed and modified sets of computeDiff(A, B) have pairwise
\* disjoint origins and cover exactly the origins on which A and B differ: added
\* holds A's rules of the origins only in A, removed B's rules of the origins only
\* in B, modified A's rules of the origins in both with different values; and
\* computeDiff(A, A) is three empty sets.  The change test of main agrees with it.
C20_DiffCorrect ==
    last.kind = "computeDiff"
    => LET A == last.new
           B == last.old
           d == last.out
           differ == OriginsOf((A \ B) \cup (B \ A))
       IN  /\ OriginsOf(d.added) \cap OriginsOf(d.removed) = {}
           /\ OriginsOf(d.added) \cap OriginsOf(d.modified) = {}
           /\ OriginsOf(d.removed) \cap OriginsOf(d.modified) = {}
           /\ OriginsOf(d.added \cup d.removed \cup d.modified) = differ
           /\ d.added \subseteq A
           /\ OriginsOf(d.added) = OriginsOf(A) \ OriginsOf(B)
           /\ d.removed \subseteq B
           /\ OriginsOf(d.removed) = OriginsOf(B) \ OriginsOf(A)
           /\ d.modified \subseteq A \ B
           /\ OriginsOf(d.modified) = differ \cap OriginsOf(A) \cap OriginsOf(B)
           /\ A = B => d = [added |-> {}, removed |-> {}, modified |-> {}]
           /\ last.new_local_changes <=> differ # {}

\* a diff with a rule added, a rule modified and nothing removed
C20_Witness ==
    /\ last.kind = "computeDiff"
    /\ last.out.added # {}
    /\ last.out.modified # {}
    /\ last.old # {}

(***************************************************************************)
(* Two replicas of the tool on one WebDAV share.  Each replica has its own *)
(* profile and configuration directory: in this specification moz_perms,   *)
(* last_sync_file and last are indexed by the replica.  A run is two       *)
(* steps: StartRun up to the download of the remote state (main, lines     *)
(* 256-282), and FinishRun, the rest of main on what the run downloaded.   *)
(* Nothing stops the other replica's steps in between.  The share holds   *)
(* the empty sync.json of an initial sync from the start, and no replica   *)
(* has a baseline yet.                                                     *)
(***************************************************************************)
Replicas == {"r1", "r2"}

NotStarted ==
    [pc |-> "idle", simulate |-> FALSE, at |-> 0, seen |-> NoFile, res |-> NoOutcome]

InitRace ==
    /\ moz_perms \in [Replicas -> RuleSets]
    /\ remote_file = Encode(EmptyState)
    /\ last_sync_file = [r \in Replicas |-> NoFile]
    /\ backups_mtime = 0
    /\ backup_files = {}
    /\ now = 2
    /\ last = [run |-> [r \in Replicas |-> NotStarted], overlap |-> FALSE,
               finished |-> <<>>]

\* main up to downloadSyncState: the run has the remote state in hand
StartRun ==
    \E r \in Replicas :
        /\ last.run[r].pc = "idle"
        /\ last' = [last EXCEPT
                      !.run[r] = [@ EXCEPT !.pc = "downloaded", !.at = now,
                                            !.seen = remote_file],
                      !.overlap = \E q \in Replicas \ {r} : last.run[q].pc = "downloaded"]
        /\ now' = now + 1
        /\ UNCHANGED <<moz_perms, remote_file, last_sync_file, backups_mtime,
                       backup_files>>

\* the rest of main, decided on the remote state the run downloaded; an upload
\* replaces whatever the share holds by then
FinishRun ==
    \E r \in Replicas :
        /\ last.run[r].pc = "downloaded"
        /\ \E in \in {i \in Inputs : ~Truthy(i.backup_enabled) /\ i.fault # "download"} :
             \E R \in {main(Begin([moz_perms |-> moz_perms[r],
                                   remote_file |-> last.run[r].seen,
                                   last_sync_file |-> last_sync_file[r],
                                   backups_mtime |-> backups_mtime,
                                   backup_files |-> backup_files],
                                  last.run[r].at), in)} :
                /\ FaultMet(in, R)
                /\ OptionsRead(in, R)
                /\ moz_perms' = [moz_perms EXCEPT ![r] = R.moz_perms]
                /\ last_sync_file' = [last_sync_file EXCEPT ![r] = R.last_sync_file]
                /\ remote_file' =
                      IF \E i \in 1..Len(R.writes) : R.writes[i] = "remote"
                      THEN R.remote_file
                      ELSE remote_file
                /\ last' = [last EXCEPT
                              !.run[r] = [@ EXCEPT !.pc = "done",
                                                    !.simulate = in.simulate,
                                                    !.res = Outcome(R)],
                              !.finished = Append(@, r)]
        /\ UNCHANGED <<backups_mtime, backup_files, now>>

NextRace == StartRun \/ FinishRun

SpecRace == InitRace /\ [][NextRace]_vars

\* both runs had downloaded before either went on, both pushed without
\* --simulate, and both are done
C21_RacedPushes ==
    /\ Len(last.finished) = 2
    /\ last.overlap
    /\ \A r \in Replicas :
          /\ last.run[r].res.branch = "push"
          /\ last.run[r].res.end = "done"
          /\ ~last.run[r].simulate

\* C21: when two runs for different replicas both download before either
\* uploads and both push, both exit with code 0, and the share ends up with the
\* snapshot of the run that uploaded last alone: the other run's upload is
\* replaced, not merged.
C21_ConcurrentRunsLoseUploads ==
    C21_RacedPushes
    => /\ \A r \in Replicas : last.run[r].res.exit = 0
       /\ remote_file =
             Encode([syncDate |-> last.run[last.finished[2]].at,
                     exceptionRules |-> moz_perms[last.finished[2]]])
       /\ \A r \in Replicas :
             last_sync_file[r] =
                Encode([syncDate |-> last.run[r].at, exceptionRules |-> moz_perms[r]])

\* the run that uploaded first had a rule that the share no longer holds
C21_Witness ==
    /\ C21_RacedPushes
    /\ \A r \in Replicas : last.run[r].res.exit = 0
    /\ \E x \in moz_perms[last.finished[1]] : x \notin RuleSetOf(remote_file)
    /\ moz_perms[last.finished[2]] # {}

\* C22 (as claimed): after any sequence of importRules, replaceRules and
\* deleteAllExceptions, from an empty store, the local rule store holds at most one
\* cookie rule per origin, also when a list given to them holds two rules of one
\* origin.
C22_OneRulePerOrigin == UniqueByOrigin(moz_perms)

\* the connection's rows of origin o
RowsAt(rows, o) == {x \in rows : x.origin = o}

\* importRules was given a list of rules that are valid by the three conditions
C23_Case ==
    /\ last.kind = "importRules"
    /\ \A i \in 1..Len(last.rules) : C14_Valid(last.rules[i])

\* C23 (as claimed): importRules on valid rules completes; an origin of the list
\* with no row gets a row of a listed rule; an origin of the list with a row keeps
\* it without updateExisting and takes the permission and modificationTime of a
\* listed rule with updateExisting; the rows of all other origins stay.
C23_ImportSemantics ==
    C23_Case
    => /\ last.exit = 0
       /\ \A o \in OriginsOf(last.pre) \cup OriginsOf(last.rows) \cup OriginsOf(Range(last.rules)) :
             LET listed == RowsAt(Range(last.rules), o)
                 before == RowsAt(last.pre, o)
                 after == RowsAt(last.rows, o)
             IN  /\ listed = {} => after = before
                 /\ (listed # {} /\ before = {})
                    => \E x \in listed : after = {x}
                 /\ (listed # {} /\ before # {} /\ ~last.updateExisting)
                    => after = before
                 /\ (listed # {} /\ before # {} /\ last.updateExisting)
                    => \E x \in listed : after = {x}

(***************************************************************************)
(* One run of the sync tool with the answer of the server to the MKCOL of  *)
(* createSyncDir as an input: 201 Created, or one of the failures.         *)
(***************************************************************************)
\* the status of a collection that was made (as for a PUT, webdav.py line 45)
Created == 201
MkcolStatuses == {Created, 405, 409, 500}

\* WebDAVClient.mkdir: the status code is returned, whatever it is
mkdir(status) == [raised |-> FALSE, status_code |-> status]

\* createSyncDir: the handlers run only for a webdav.Error raised by mkdir
createSyncDir(S, status) ==
    LET m == mkdir(status)
    IN  IF ~m.raised THEN S
        ELSE IF m.status_code = 405 THEN Exit(S, "mkcol_unsupported", 1)
        ELSE IF m.status_code = 409 THEN S
        ELSE Exit(S, "mkdir_failed", 1)

\* main with createSyncDir (line 256) between the selfcheck and the rest
mainWithSyncDir(S, in, status) ==
    IF in.fault = "selfcheck" THEN main(S, in)
    ELSE LET D == createSyncDir(S, status)
         IN  IF D.end # "running" THEN D ELSE main(D, in)

\* a remote file written by value, as RemoteWrite puts it
ForeignFile(rs, date) ==
    [exists |-> TRUE, syncDate |-> date,
     exceptionRules |->
        {[origin |-> r.origin, permission |-> JNum(r.permission),
          modificationTime |-> r.modificationTime] : r \in rs}]

InitSyncDir ==
    /\ moz_perms \in RuleSets
    /\ remote_file \in {NoFile} \cup {ForeignFile(rs, 1) : rs \in RuleSets}
    /\ last_sync_file = NoFile
    /\ backups_mtime = 0
    /\ backup_files = {}
    /\ now = 2
    /\ last = [kind |-> "none"]

RunSyncDir ==
    /\ last.kind = "none"
    /\ \E in \in Inputs, status \in MkcolStatuses :
         \E R \in {mainWithSyncDir(Begin(Stores, now), in, status)} :
            /\ FaultMet(in, R)
            /\ OptionsRead(in, R)
            /\ moz_perms' = R.moz_perms
            /\ remote_file' = R.remote_file
            /\ last_sync_file' = R.last_sync_file
            /\ backups_mtime' = R.backups_mtime
            /\ backup_files' = R.backup_files
            /\ last' = [kind |-> "run", in |-> in, status |-> status, pre |-> Stores,
                        res |-> Outcome(R)]
    /\ now' = now + 2

NextSyncDir == RunSyncDir

SpecSyncDir == InitSyncDir /\ [][NextSyncDir]_vars

\* C24 (as claimed): a run whose MKCOL is answered 201 or 409 (already exists) is
\* not stopped by createSyncDir; a run whose MKCOL fails in any other way (405,
\* 500) exits with a non-zero code in createSyncDir, before a sync state is read
\* or written.
C24_SyncDirFailSafe ==
    (last.kind = "run" /\ last.in.fault # "selfcheck")
    => /\ last.status \in {Created, 409}
          => last.res.end \notin {"mkcol_unsupported", "mkdir_failed"}
       /\ last.status \in {405, 500}
          => /\ last.res.end \in {"mkcol_unsupported", "mkdir_failed"}
             /\ last.res.exit # 0
             /\ last.res.writes = <<>>
             /\ Stores = last.pre

\* the case of C25: a sync run that found rules in the local store
C25_Case == Ran /\ last.pre.moz_perms # {}

\* C25: a sync run that found a non-empty local rule set leaves a non-empty one,
\* whatever the panic option and the merge strategy are; a run that replaced the
\* local rules replaced them by a non-empty set, and a run that was about to
\* replace them by an empty one ended in the AssertionError of replaceRules with
\* the local store as it found it.
C25_NoAccidentalWipe ==
    /\ C25_Case => moz_perms # {}
    /\ (Ran /\ "local" \in Range(last.res.writes)) => moz_perms # {}
    /\ (Ran /\ last.res.end = "AssertionError" /\ "local" \notin Range(last.res.writes))
       => moz_perms = last.pre.moz_perms

\* a run without the panic option found local rules and a remote snapshot with no
\* rules, went to replace the local rules and was stopped by the assert
C25_Witness ==
    /\ C25_Case
    /\ ~Truthy(last.in.panic)
    /\ ~last.in.simulate
    /\ last.pre.remote_file.exists
    /\ last.pre.remote_file.exceptionRules = {}
    /\ last.res.branch \in {"pull", "merge"}
    /\ last.res.end = "AssertionError"
    /\ moz_perms = last.pre.moz_perms

\* the case of C26: a CLI import of rules that are valid by the spec's rule, for
\* origins the store did not hold
C26_Case ==
    /\ last.kind = "importRules"
    /\ Len(last.rules) > 0
    /\ \A i \in 1..Len(last.rules) :
          /\ C14_Valid(last.rules[i])
          /\ RowsAt(last.pre, last.rules[i].origin) = {}

\* C26 (as claimed): after such an import the run has ended with code 0 and the
\* database file, as a later run reads it, holds a rule of the list for every
\* origin of the list.
C26_ImportDurability ==
    C26_Case
    => /\ last.exit = 0
       /\ \A i \in 1..Len(last.rules) :
             \E j \in 1..Len(last.rules) :
                /\ last.rules[j].origin = last.rules[i].origin
                /\ last.rules[j] \in moz_perms

====
